---- MODULE Spec2Model ----
(***************************************************************************)
(* Job lifecycle and rate limiting of the Lexia API.                       *)
(*                                                                         *)
(* Fourteen specifications share this module:                                   *)
(*   Spec       the endpoints that write (create, cancel) running          *)
(*              concurrently with the Celery workers on the jobs table;    *)
(*   SpecApi    the handlers of routers/jobs.py and routers/diarization.py *)
(*              applied to a jobs table drawn from the rows a job has      *)
(*              along its lifecycle;                                       *)
(*   SpecStore  JobRepository as an object: its methods called in any      *)
(*              order with arguments drawn from small sets;                *)
(*   SpecProgress  JobRepository.update_progress on a job at any point of  *)
(*              its lifecycle;                                             *)
(*   SpecRL     RateLimiter.check_rate_limit against the Redis sorted      *)
(*              sets, with concurrent requests;                            *)
(*   SpecHook   runs of the webhook notifier over jobs that end;           *)
(*   SpecReq    one HTTP request after another through the dependencies    *)
(*              (authentication, rate limiting) and the handler;           *)
(*   SpecDiar   calls of the mock diarization backend;                     *)
(*   SpecRetry  workers executing and retrying enqueued jobs;              *)
(*   SpecTimeout  workers executing tasks under the Celery time limits;    *)
(*   SpecIso    RateLimiter.check_rate_limit with the requests of two      *)
(*              credentials interleaved;                                   *)
(*   SpecLive   creation requests and workers under fair scheduling;       *)
(*   SpecTrans  transcription jobs created, cancelled and read back;       *)
(*   SpecKeys   APIKeyRepository called in any order while jobs are        *)
(*              created under the keys.                                    *)
(***************************************************************************)
EXTENDS Integers, Sequences, FiniteSets, TLC

\* ------------------------------------------------------------------ bounds
MaxJobs == 1
MaxClock == 1
MaxRequests == 5
MaxInflight == 2
DefaultLimit == 2       \* settings.rate_limit_requests_per_minute, scaled down
Burst == 1              \* settings.rate_limit_burst, scaled down
MaxWorkers == 2         \* worker processes (worker_concurrency), scaled down
MaxExecutions == 5      \* executions of one job's task that are followed
MaxIso == 4             \* requests followed when two credentials interleave
MaxElapsed == 3         \* hours of wall clock followed while tasks execute
SoftTimeLimit == 1      \* task_soft_time_limit (3300 s), scaled down
TimeLimit == 2          \* task_time_limit (3600 s), scaled down

\* ------------------------------------------------------- program constants
WindowSeconds == 60
ExpireSlack == 10
MaxRetries == 3         \* Job.max_retries default, task_max_retries

\* ---------------------------------------------------------------- universe
None == "None"          \* Python None in a string-valued column or argument
NoTime == -1            \* NULL in a timestamp column
NoTask == 0             \* NULL in jobs.celery_task_id; the task of job j has id j
JobIds == 1..MaxJobs
Users == {"alice", "bob"}
JobTypes == {"transcription", "diarization"}
ApiKeys == {"k1", "k2"}
Statuses == {"pending", "queued", "processing", "completed", "failed", "cancelled"}
Terminal == {"completed", "failed", "cancelled"}
NoJob == [status |-> "absent"]

VARIABLES
    jobs,       \* the jobs table: job id -> committed row, or NoJob
    clock,      \* wall clock read by datetime.now
    createPc,   \* position of the creation endpoint handling each job
    cancelPc,   \* position of the in-flight DELETE /v1/jobs/{id} per job
    cancelTok,  \* job.celery_task_id as read by the in-flight cancel
    cancelUser, \* the caller of the in-flight cancel
    queue,      \* tasks waiting in the broker queue (by job id)
    running,    \* per job, the number of workers executing its task
    revoked,    \* task ids revoked through app.control.revoke
    attempts,   \* number of times a worker has started executing each job's task
    last,       \* the last request handled and its response
    zsets,      \* Redis: rate-limit key -> sorted set of <<member, score>>
    expireAt,   \* Redis: rate-limit key -> expiry time of the key
    rlClock,    \* wall clock read by time.time
    inflight,   \* check_rate_limit calls that built their pipeline
    rlLog,      \* outcomes of the executed check_rate_limit calls, in order
    hookPc,     \* position of each run of the webhook notifier
    hookTodo,   \* the jobs each notifier run read and has still to notify
    delivered,  \* number of webhook deliveries made for each job
    http,       \* the last HTTP exchange: the request and its response
    api_keys,   \* the api_keys table: key id -> committed row, or NoKey
    transcriptions  \* the transcriptions table: the row made with job j has id j

jobVars == <<jobs, clock, createPc, cancelPc, cancelTok, cancelUser, queue, running, revoked, attempts, last>>
rlVars == <<zsets, expireAt, rlClock, inflight, rlLog>>
hookVars == <<hookPc, hookTodo, delivered>>
httpVars == <<http>>
keyVars == <<api_keys>>
transVars == <<transcriptions>>
vars == <<jobs, clock, createPc, cancelPc, cancelTok, cancelUser, queue, running, revoked, attempts, last,
          zsets, expireAt, rlClock, inflight, rlLog, hookPc, hookTodo, delivered, http, api_keys, transcriptions>>

\* =========================================================================
\* JobRepository (src/db/repositories/job.py): every method is one UPDATE or
\* INSERT on the jobs table.  A Python value that is falsy (None, "", {}) is
\* written None here.
\* =========================================================================

\* whether a row with this primary key is in the table
Exists(tbl, id) == id \in DOMAIN tbl /\ tbl[id].status # "absent"

\* the key a request of this user is authenticated with (user.api_key_id)
ApiKeyOf(user) == IF user = "alice" THEN "k1" ELSE "k2"

\* ---------------------------------------------------------- APIKeyRepository
NoKey == [present |-> FALSE]

\* APIKey(...) with the column defaults of src/db/models.py
NewKey == [present |-> TRUE, is_revoked |-> FALSE, last_used_at |-> NoTime]

\* the keys are issued before the service takes requests
InitKeys == api_keys = [k \in ApiKeys |-> NewKey]

\* ---------------------------------------------------- TranscriptionRepository
NoTranscription == [status |-> "absent"]

\* TranscriptionRepository.create: the row starts as processing
transcription_create(tbl, id, job_id, api_key_id, user_id) ==
    [tbl EXCEPT ![id] = [ job_id |-> job_id,
                          status |-> "processing",
                          api_key_id |-> api_key_id,
                          user_id |-> user_id,
                          completed_at |-> NoTime,
                          error |-> None ]]

\* TranscriptionRepository.get_by_id: the row, or NoTranscription for None
transcription_get_by_id(tbl, id) ==
    IF id \in DOMAIN tbl THEN tbl[id] ELSE NoTranscription

\* TranscriptionRepository.update_status
transcription_update_status(tbl, id, status, error, now) ==
    IF tbl[id].status = "absent" THEN tbl
    ELSE LET r1 == [tbl[id] EXCEPT !.status = status]
             r2 == IF status = "completed" THEN [r1 EXCEPT !.completed_at = now] ELSE r1
             r3 == IF error # None THEN [r2 EXCEPT !.error = error] ELSE r2
         IN  [tbl EXCEPT ![id] = r3]

\* the transcriptions table that goes with a jobs table: one row for every
\* transcription job, as create_transcription made it and as the worker that
\* ended the job left it
InitTranscriptions ==
    transcriptions =
        [id \in JobIds |->
            IF jobs[id].status # "absent" /\ jobs[id].type = "transcription"
            THEN LET t0 == transcription_create([k \in {id} |-> NoTranscription], id, id,
                                               jobs[id].api_key_id, jobs[id].user_id)
                 IN  IF jobs[id].status \in {"completed", "failed"}
                     THEN transcription_update_status(t0, id, jobs[id].status,
                                                      jobs[id].error_message,
                                                      jobs[id].completed_at)[id]
                     ELSE t0[id]
            ELSE NoTranscription]

\* Job(...) with the column defaults of src/db/models.py
NewJob(job_type, params, api_key_id, user_id, webhook_url, now) ==
    [ type |-> job_type,
      status |-> "pending",
      params |-> params,
      api_key_id |-> api_key_id,
      user_id |-> user_id,
      webhook_url |-> webhook_url,
      webhook_sent |-> FALSE,
      created_at |-> now,
      updated_at |-> now,
      started_at |-> NoTime,
      completed_at |-> NoTime,
      result |-> None,
      progress_percent |-> 0,
      progress_message |-> None,
      error_message |-> None,
      error_code |-> None,
      retries |-> 0,
      max_retries |-> MaxRetries,
      celery_task_id |-> NoTask ]

\* JobRepository.create
create(tbl, id, job_type, params, api_key_id, user_id, webhook_url, now) ==
    [tbl EXCEPT ![id] = NewJob(job_type, params, api_key_id, user_id, webhook_url, now)]

\* JobRepository.get_by_id: the row, or NoJob for Python's None
get_by_id(tbl, id) ==
    IF Exists(tbl, id) THEN tbl[id] ELSE NoJob

\* UPDATE jobs SET ... WHERE id = :id; updated_at, which no statement sets,
\* takes its onupdate value
UpdateRow(tbl, id, row, now) == [tbl EXCEPT ![id] = [row EXCEPT !.updated_at = now]]

\* JobRepository.update_status
update_status(tbl, id, status, error_message, error_code, now) ==
    LET r0 == tbl[id]
        r1 == [r0 EXCEPT !.status = status]
        r2 == IF status = "processing" THEN [r1 EXCEPT !.started_at = now]
              ELSE IF status \in {"completed", "failed"} THEN [r1 EXCEPT !.completed_at = now]
              ELSE r1
        r3 == IF error_message # None THEN [r2 EXCEPT !.error_message = error_message] ELSE r2
        r4 == IF error_code # None THEN [r3 EXCEPT !.error_code = error_code] ELSE r3
    IN  IF Exists(tbl, id) THEN UpdateRow(tbl, id, r4, now) ELSE tbl

\* update_progress that also writes the status, as set_result does
update_progress_and_status(tbl, id, percent, message, now) ==
    LET r0 == tbl[id]
        r1 == [r0 EXCEPT !.progress_percent = percent, !.status = "processing"]
        r2 == IF message # None THEN [r1 EXCEPT !.progress_message = message] ELSE r1
    IN  IF Exists(tbl, id) THEN UpdateRow(tbl, id, r2, now) ELSE tbl

\* JobRepository.update_progress
update_progress(tbl, id, percent, message, now) ==
    LET r0 == tbl[id]
        r1 == [r0 EXCEPT !.progress_percent = percent]
        r2 == IF message # None THEN [r1 EXCEPT !.progress_message = message] ELSE r1
    IN  IF Exists(tbl, id) THEN UpdateRow(tbl, id, r2, now) ELSE tbl

\* JobRepository.set_result
set_result(tbl, id, result, now) ==
    LET r0 == tbl[id]
        r1 == [r0 EXCEPT !.status = "completed", !.completed_at = now, !.progress_percent = 100]
        r2 == IF result # None THEN [r1 EXCEPT !.result = result] ELSE r1
    IN  IF Exists(tbl, id) THEN UpdateRow(tbl, id, r2, now) ELSE tbl

\* JobRepository.set_celery_task_id
set_celery_task_id(tbl, id, task_id, now) ==
    IF Exists(tbl, id)
    THEN UpdateRow(tbl, id, [tbl[id] EXCEPT !.celery_task_id = task_id, !.status = "queued"], now)
    ELSE tbl

\* JobRepository.mark_webhook_sent
mark_webhook_sent(tbl, id, now) ==
    IF Exists(tbl, id)
    THEN UpdateRow(tbl, id, [tbl[id] EXCEPT !.webhook_sent = TRUE], now)
    ELSE tbl

\* =========================================================================
\* Responses.  Every response is a record of the same shape: the HTTP status
\* code, the error code of LexiaAPIError.to_dict, the details of the error
\* (the id echoed by JobNotFoundError, the status named by ValidationError)
\* and, for a success, the reported status and the listed job ids.
\* =========================================================================
NoBody == [empty |-> TRUE]

Response(code, error, job_id, current_status, status, ids) ==
    [ code |-> code, error |-> error, job_id |-> job_id,
      current_status |-> current_status, status |-> status, ids |-> ids,
      body |-> NoBody ]

\* JobNotFoundError(job_id): 404 JOB_NOT_FOUND, details {"job_id": job_id}
JobNotFoundError(job_id) == Response(404, "JOB_NOT_FOUND", job_id, None, None, <<>>)

\* ValidationError(details={"current_status": status}): 422 VALIDATION_ERROR
ValidationError(current_status) ==
    Response(422, "VALIDATION_ERROR", 0, current_status, None, <<>>)

\* a success carrying the job's reported status
Ok(code, status) == Response(code, None, 0, None, status, <<>>)

\* the marker a handler returns when it goes on past its checks
Proceed == Response(0, None, 0, None, None, <<>>)

\* map_job_status of routers/jobs.py: unknown statuses map to PENDING
map_job_status(status) == IF status \in Statuses THEN status ELSE "pending"

\* status_map of get_diarization: statuses missing from the map read QUEUED
diarization_status(status) ==
    CASE status = "pending" -> "queued"
      [] status = "queued" -> "queued"
      [] status = "processing" -> "processing"
      [] status = "completed" -> "completed"
      [] status = "failed" -> "failed"
      [] OTHER -> "queued"

\* JobResponse(...) as get_job and list_jobs build it: the fields of the
\* model (src/models/jobs.py) the handler passes.  progress and error are
\* optional objects, written as a set with at most one element.  The handler
\* passes job.metadata; Job has no column of that name (the column is
\* extra_data), so the attribute read is the declarative class's MetaData.
JobResponse(job_id, job) ==
    [ id |-> job_id,
      type |-> job.type,
      status |-> map_job_status(job.status),
      created_at |-> job.created_at,
      started_at |-> job.started_at,
      completed_at |-> job.completed_at,
      progress |-> IF job.progress_percent > 0
                   THEN {[ percentage |-> job.progress_percent,
                           message |-> job.progress_message ]}
                   ELSE {},
      result |-> job.result,
      error |-> IF job.error_message # None
                THEN {[ code |-> IF job.error_code # None THEN job.error_code ELSE "ERROR",
                        message |-> job.error_message ]}
                ELSE {},
      metadata |-> "Base.metadata",
      webhook_url |-> job.webhook_url,
      user_id |-> job.user_id ]

\* get_job without its ownership check
get_job_any_owner(tbl, user, job_id) ==
    LET job == get_by_id(tbl, job_id)
    IN  IF job.status = "absent" THEN JobNotFoundError(job_id)
        ELSE [Ok(200, map_job_status(job.status)) EXCEPT !.body = JobResponse(job_id, job)]

\* GET /v1/jobs/{job_id}
get_job(tbl, user, job_id) ==
    LET job == get_by_id(tbl, job_id)
    IN  IF job.status = "absent" THEN JobNotFoundError(job_id)
        ELSE IF job.user_id # user THEN JobNotFoundError(job_id)
        ELSE [Ok(200, map_job_status(job.status)) EXCEPT !.body = JobResponse(job_id, job)]

\* get_diarization answering a foreign job with AuthorizationError (403)
get_diarization_forbidden(tbl, user, job_id) ==
    LET job == get_by_id(tbl, job_id)
    IN  IF job.status = "absent" THEN JobNotFoundError(job_id)
        ELSE IF job.type # "diarization" THEN JobNotFoundError(job_id)
        ELSE IF job.user_id # user
             THEN Response(403, "AUTHORIZATION_ERROR", 0, None, None, <<>>)
        ELSE Ok(200, diarization_status(job.status))

\* GET /v1/diarization/{job_id}
get_diarization(tbl, user, job_id) ==
    LET job == get_by_id(tbl, job_id)
    IN  IF job.status = "absent" THEN JobNotFoundError(job_id)
        ELSE IF job.type # "diarization" THEN JobNotFoundError(job_id)
        ELSE IF job.user_id # user THEN JobNotFoundError(job_id)
        ELSE Ok(200, diarization_status(job.status))

\* TranscriptionNotFoundError(transcription_id): 404 TRANSCRIPTION_NOT_FOUND
TranscriptionNotFoundError(transcription_id) ==
    Response(404, "TRANSCRIPTION_NOT_FOUND", transcription_id, None, None, <<>>)

\* status_map of get_transcription: statuses missing from the map read QUEUED
transcription_status(status) ==
    CASE status = "processing" -> "processing"
      [] status = "completed" -> "completed"
      [] status = "failed" -> "failed"
      [] OTHER -> "queued"

\* GET /v1/transcriptions/{transcription_id}
get_transcription(tbl, user, transcription_id) ==
    LET transcription == transcription_get_by_id(tbl, transcription_id)
    IN  IF transcription.status = "absent" THEN TranscriptionNotFoundError(transcription_id)
        ELSE IF transcription.user_id # user THEN TranscriptionNotFoundError(transcription_id)
        ELSE Ok(200, transcription_status(transcription.status))

\* cancel_job rejecting only the jobs that have ended
cancel_job_checks_ended_only(tbl, user, job_id) ==
    LET job == get_by_id(tbl, job_id)
    IN  IF job.status = "absent" THEN JobNotFoundError(job_id)
        ELSE IF job.user_id # user THEN JobNotFoundError(job_id)
        ELSE IF job.status \in Terminal THEN ValidationError(job.status)
        ELSE Proceed

\* the checks of DELETE /v1/jobs/{job_id} before it writes
cancel_job_checks(tbl, user, job_id) ==
    LET job == get_by_id(tbl, job_id)
    IN  IF job.status = "absent" THEN JobNotFoundError(job_id)
        ELSE IF job.user_id # user THEN JobNotFoundError(job_id)
        ELSE IF job.status \notin {"pending", "queued"} THEN ValidationError(job.status)
        ELSE Proceed

\* JobRepository.get_by_user: the ids of the rows the query selects
get_by_user_rows(tbl, user_id, status) ==
    { id \in DOMAIN tbl :
        /\ Exists(tbl, id)
        /\ tbl[id].user_id = user_id
        /\ (status # None => tbl[id].status = status) }

\* ORDER BY created_at DESC: the orders the database may return the rows in
NewestFirst(tbl, ids) ==
    { sq \in [1..Cardinality(ids) -> ids] :
        /\ \A a, b \in 1..Cardinality(ids) : a # b => sq[a] # sq[b]
        /\ \A a, b \in 1..Cardinality(ids) :
              a < b => tbl[sq[a]].created_at >= tbl[sq[b]].created_at }

\* LIMIT :limit OFFSET :offset
Page(sq, limit, offset) ==
    SubSeq(sq, offset + 1, IF Len(sq) < offset + limit THEN Len(sq) ELSE offset + limit)

\* =========================================================================
\* The API and the workers on the jobs table (Spec)
\* =========================================================================
Sources == {"upload", "url"}
WebhookUrls == {None, "hook"}
StatusFilters == {None, "queued"}
Offsets == {0, 1}
Percents == {50}

\* the params dict the creation endpoints build from the form fields
Params(job_type) ==
    IF job_type = "transcription"
    THEN [language_code |-> "fr", speaker_diarization |-> FALSE, word_timestamps |-> TRUE]
    ELSE [num_speakers |-> 2, min_speakers |-> 0, max_speakers |-> 0]

\* a request and its response (Proceed while the handler has not answered);
\* a step that handles no request leaves Quiet
Handled(op, user, job_id, resp) == [op |-> op, user |-> user, job |-> job_id, resp |-> resp]
Quiet == Handled("none", None, 0, Proceed)

\* uuid4: an id no row has
FreshId(id) == /\ id \in JobIds
               /\ ~Exists(jobs, id)
               /\ \A k \in JobIds : k < id => Exists(jobs, k)

InitJobs ==
    /\ jobs = [id \in JobIds |-> NoJob]
    /\ clock = 0
    /\ createPc = [id \in JobIds |-> "none"]
    /\ cancelPc = [id \in JobIds |-> "idle"]
    /\ cancelTok = [id \in JobIds |-> NoTask]
    /\ cancelUser = [id \in JobIds |-> None]
    /\ queue = {}
    /\ running = [id \in JobIds |-> 0]
    /\ revoked = {}
    /\ attempts = [id \in JobIds |-> 0]
    /\ last = Quiet

\* time passes
Tick ==
    /\ clock < MaxClock
    /\ clock' = clock + 1
    /\ last' = Quiet
    /\ UNCHANGED <<jobs, createPc, cancelPc, cancelTok, cancelUser, queue, running, revoked, attempts>>
    /\ UNCHANGED <<rlVars, hookVars, httpVars, keyVars, transVars>>

\* create_transcription / create_diarization up to the first commit; with an
\* audio URL and no upload nothing is queued and the handler answers at once
CreateJob(user, job_type, src, webhook_url) ==
    \E id \in JobIds :
        /\ FreshId(id)
        /\ jobs' = create(jobs, id, job_type, Params(job_type), ApiKeyOf(user), user, webhook_url, clock)
        /\ createPc' = [createPc EXCEPT ![id] = IF src = "upload" THEN "committed" ELSE "done"]
        /\ transcriptions' =
              IF job_type = "transcription"
              THEN transcription_create(transcriptions, id, id, ApiKeyOf(user), user)
              ELSE transcriptions
        /\ last' = IF src = "upload" THEN Quiet
                   ELSE Handled("create", user, id, Ok(202, "queued"))
        /\ UNCHANGED <<clock, cancelPc, cancelTok, cancelUser, queue, running, revoked, attempts>>
        /\ UNCHANGED <<rlVars, hookVars, httpVars, keyVars>>

\* process_transcription.delay / process_diarization.delay
CreateDelay(id) ==
    /\ createPc[id] = "committed"
    /\ queue' = queue \cup {id}
    /\ createPc' = [createPc EXCEPT ![id] = "delayed"]
    /\ last' = Quiet
    /\ UNCHANGED <<jobs, clock, cancelPc, cancelTok, cancelUser, running, revoked, attempts>>
    /\ UNCHANGED <<rlVars, hookVars, httpVars, keyVars, transVars>>

\* process_transcription.delay / process_diarization.delay raises (the
\* broker cannot be reached): the handler has no try around the call, the
\* exception reaches general_error_handler and the caller is answered 500;
\* the job row was committed before the call
CreateDelayRaises(id) ==
    /\ createPc[id] = "committed"
    /\ createPc' = [createPc EXCEPT ![id] = "raised"]
    /\ last' = Handled("create", jobs[id].user_id, id,
                       Response(500, "INTERNAL_ERROR", 0, None, None, <<>>))
    /\ UNCHANGED <<jobs, clock, cancelPc, cancelTok, cancelUser, queue, running, revoked, attempts>>
    /\ UNCHANGED <<rlVars, hookVars, httpVars, keyVars, transVars>>

\* set_celery_task_id, commit, and the 202 answer
CreateRecord(id) ==
    /\ createPc[id] = "delayed"
    /\ jobs' = set_celery_task_id(jobs, id, id, clock)
    /\ createPc' = [createPc EXCEPT ![id] = "done"]
    /\ last' = Handled("create", jobs[id].user_id, id, Ok(202, "queued"))
    /\ UNCHANGED <<clock, cancelPc, cancelTok, cancelUser, queue, running, revoked, attempts>>
    /\ UNCHANGED <<rlVars, hookVars, httpVars, keyVars, transVars>>

\* GET /v1/jobs/{job_id}
GetJob(user, id) ==
    /\ last' = Handled("get_job", user, id, get_job(jobs, user, id))
    /\ UNCHANGED <<jobs, clock, createPc, cancelPc, cancelTok, cancelUser, queue, running, revoked, attempts>>
    /\ UNCHANGED <<rlVars, hookVars, httpVars, keyVars, transVars>>

\* GET /v1/transcriptions/{transcription_id}
GetTranscription(user, id) ==
    /\ last' = Handled("get_transcription", user, id, get_transcription(transcriptions, user, id))
    /\ UNCHANGED <<jobs, clock, createPc, cancelPc, cancelTok, cancelUser, queue, running, revoked, attempts>>
    /\ UNCHANGED <<rlVars, hookVars, httpVars, keyVars, transVars>>

\* GET /v1/diarization/{job_id}
GetDiarization(user, id) ==
    /\ last' = Handled("get_diarization", user, id, get_diarization(jobs, user, id))
    /\ UNCHANGED <<jobs, clock, createPc, cancelPc, cancelTok, cancelUser, queue, running, revoked, attempts>>
    /\ UNCHANGED <<rlVars, hookVars, httpVars, keyVars, transVars>>

\* GET /v1/jobs
ListJobs(user, status, offset) ==
    \E sq \in NewestFirst(jobs, get_by_user_rows(jobs, user, status)) :
        /\ last' = Handled("list_jobs", user, 0,
                           Response(200, None, 0, None, None, Page(sq, 50, offset)))
        /\ UNCHANGED <<jobs, clock, createPc, cancelPc, cancelTok, cancelUser, queue, running, revoked, attempts>>
        /\ UNCHANGED <<rlVars, hookVars, httpVars, keyVars, transVars>>

\* DELETE /v1/jobs/{job_id}: the row is read and checked; a request that
\* passes the checks goes on to CancelWrite
CancelJob(user, id) ==
    LET resp == cancel_job_checks(jobs, user, id)
    IN  /\ resp = Proceed => cancelPc[id] = "idle"
        /\ cancelPc' = IF resp = Proceed THEN [cancelPc EXCEPT ![id] = "checked"] ELSE cancelPc
        /\ cancelTok' = IF resp = Proceed
                        THEN [cancelTok EXCEPT ![id] = jobs[id].celery_task_id]
                        ELSE cancelTok
        /\ cancelUser' = IF resp = Proceed THEN [cancelUser EXCEPT ![id] = user] ELSE cancelUser
        /\ last' = Handled("cancel_job", user, id, resp)
        /\ UNCHANGED <<jobs, clock, createPc, queue, running, revoked, attempts>>
        /\ UNCHANGED <<rlVars, hookVars, httpVars, keyVars, transVars>>

\* DELETE /v1/jobs/{job_id}: revoke the task if one was read, write
\* "cancelled", commit, answer 204
CancelWrite(id) ==
    /\ cancelPc[id] = "checked"
    /\ revoked' = IF cancelTok[id] # NoTask THEN revoked \cup {cancelTok[id]} ELSE revoked
    /\ jobs' = update_status(jobs, id, "cancelled", None, None, clock)
    /\ cancelPc' = [cancelPc EXCEPT ![id] = "idle"]
    /\ cancelTok' = [cancelTok EXCEPT ![id] = NoTask]
    /\ cancelUser' = [cancelUser EXCEPT ![id] = None]
    /\ last' = Handled("cancel_job", cancelUser[id], id, Ok(204, None))
    /\ UNCHANGED <<clock, createPc, queue, running, attempts>>
    /\ UNCHANGED <<rlVars, hookVars, httpVars, keyVars, transVars>>

\* --- the worker tasks (src/workers/tasks is not part of the sources: the
\* --- steps follow the dispatcher of the specification, each one a call of
\* --- the repository above)

\* a worker takes the task and claims the job with the start transition:
\* update_status answers nothing, so the worker goes on to execute
WorkerStart(id) ==
    /\ id \in queue
    /\ id \notin revoked
    /\ running[id] < MaxWorkers
    /\ attempts[id] < MaxExecutions
    /\ queue' = queue \ {id}
    /\ running' = [running EXCEPT ![id] = @ + 1]
    /\ attempts' = [attempts EXCEPT ![id] = @ + 1]
    /\ jobs' = update_status(jobs, id, "processing", None, None, clock)
    /\ last' = Quiet
    /\ UNCHANGED <<clock, createPc, cancelPc, cancelTok, cancelUser, revoked>>
    /\ UNCHANGED <<rlVars, hookVars, httpVars, keyVars, transVars>>

\* a worker receiving a revoked task discards it
WorkerDiscard(id) ==
    /\ id \in queue
    /\ id \in revoked
    /\ queue' = queue \ {id}
    /\ last' = Quiet
    /\ UNCHANGED <<jobs, clock, createPc, cancelPc, cancelTok, cancelUser, running, revoked, attempts>>
    /\ UNCHANGED <<rlVars, hookVars, httpVars, keyVars, transVars>>

\* revoke(terminate=True) reaches the worker executing the task
WorkerTerminated(id) ==
    /\ running[id] > 0
    /\ id \in revoked
    /\ running' = [running EXCEPT ![id] = @ - 1]
    /\ last' = Quiet
    /\ UNCHANGED <<jobs, clock, createPc, cancelPc, cancelTok, cancelUser, queue, revoked, attempts>>
    /\ UNCHANGED <<rlVars, hookVars, httpVars, keyVars, transVars>>

\* task_acks_late: the message of a task being executed is not acknowledged;
\* the broker delivers it again once its visibility timeout has passed
WorkerRedeliver(id) ==
    /\ running[id] > 0
    /\ id \notin queue
    /\ queue' = queue \cup {id}
    /\ last' = Quiet
    /\ UNCHANGED <<jobs, clock, createPc, cancelPc, cancelTok, cancelUser, running, revoked, attempts>>
    /\ UNCHANGED <<rlVars, hookVars, httpVars, keyVars, transVars>>

\* task_reject_on_worker_lost: the worker process executing the task dies
\* and the message goes back to the queue
WorkerLost(id) ==
    /\ running[id] > 0
    /\ running' = [running EXCEPT ![id] = @ - 1]
    /\ queue' = queue \cup {id}
    /\ last' = Quiet
    /\ UNCHANGED <<jobs, clock, createPc, cancelPc, cancelTok, cancelUser, revoked, attempts>>
    /\ UNCHANGED <<rlVars, hookVars, httpVars, keyVars, transVars>>

\* a progress callback
WorkerProgress(id, percent) ==
    /\ running[id] > 0
    /\ jobs[id].progress_percent # percent
    /\ jobs' = update_progress(jobs, id, percent, None, clock)
    /\ last' = Quiet
    /\ UNCHANGED <<clock, createPc, cancelPc, cancelTok, cancelUser, queue, running, revoked, attempts>>
    /\ UNCHANGED <<rlVars, hookVars, httpVars, keyVars, transVars>>

\* backend success: succeed with the structured result
WorkerSucceed(id) ==
    /\ running[id] > 0
    /\ jobs' = set_result(jobs, id, "result", clock)
    /\ transcriptions' = transcription_update_status(transcriptions, id, "completed", None, clock)
    /\ running' = [running EXCEPT ![id] = @ - 1]
    /\ last' = Quiet
    /\ UNCHANGED <<clock, createPc, cancelPc, cancelTok, cancelUser, queue, revoked, attempts>>
    /\ UNCHANGED <<rlVars, hookVars, httpVars, keyVars>>

\* backend failure that can be retried while the job has retries left: the
\* retry count goes up by one and the job goes straight back to queued
WorkerRetry(id) ==
    /\ running[id] > 0
    /\ jobs[id].retries < jobs[id].max_retries
    /\ jobs' = UpdateRow(jobs, id,
                         [jobs[id] EXCEPT !.status = "queued", !.retries = @ + 1], clock)
    /\ running' = [running EXCEPT ![id] = @ - 1]
    /\ queue' = queue \cup {id}
    /\ last' = Quiet
    /\ UNCHANGED <<clock, createPc, cancelPc, cancelTok, cancelUser, revoked, attempts>>
    /\ UNCHANGED <<rlVars, hookVars, httpVars, keyVars, transVars>>

\* backend failure that is not retried: fail with the error
WorkerFail(id) ==
    /\ running[id] > 0
    /\ jobs' = update_status(jobs, id, "failed", "backend error", "JOB_ERROR", clock)
    /\ transcriptions' = transcription_update_status(transcriptions, id, "failed", "backend error", clock)
    /\ running' = [running EXCEPT ![id] = @ - 1]
    /\ last' = Quiet
    /\ UNCHANGED <<clock, createPc, cancelPc, cancelTok, cancelUser, queue, revoked, attempts>>
    /\ UNCHANGED <<rlVars, hookVars, httpVars, keyVars>>

Next ==
    \/ \E u \in Users, t \in JobTypes, s \in Sources, w \in WebhookUrls : CreateJob(u, t, s, w)
    \/ \E id \in JobIds : CreateDelay(id)
    \/ \E id \in JobIds : CreateDelayRaises(id)
    \/ \E id \in JobIds : CreateRecord(id)
    \/ \E u \in Users, id \in JobIds : CancelJob(u, id)
    \/ \E id \in JobIds : CancelWrite(id)
    \/ \E id \in JobIds : WorkerStart(id)
    \/ \E id \in JobIds : WorkerDiscard(id)
    \/ \E id \in JobIds : WorkerTerminated(id)
    \/ \E id \in JobIds : WorkerRedeliver(id)
    \/ \E id \in JobIds : WorkerLost(id)
    \/ \E id \in JobIds, p \in Percents : WorkerProgress(id, p)
    \/ \E id \in JobIds : WorkerSucceed(id)
    \/ \E id \in JobIds : WorkerFail(id)

\* =========================================================================
\* The handlers applied to a table of lifecycle rows (SpecApi)
\* =========================================================================

\* the row of a job of this owner and type that has come to this status along
\* create, set_celery_task_id, update_status and set_result
LifecycleRow(user, job_type, status) ==
    LET t0 == create([k \in {1} |-> NoJob], 1, job_type, Params(job_type), ApiKeyOf(user), user, None, 0)
        t1 == set_celery_task_id(t0, 1, 1, 0)
        t2 == update_status(t1, 1, "processing", None, None, 0)
    IN  CASE status = "pending" -> t0[1]
          [] status = "queued" -> t1[1]
          [] status = "processing" -> t2[1]
          [] status = "completed" -> set_result(t2, 1, "result", 0)[1]
          [] status = "failed" ->
                update_status(t2, 1, "failed", "backend error", "JOB_ERROR", 0)[1]
          [] OTHER -> update_status(t1, 1, "cancelled", None, None, 0)[1]

LifecycleRows ==
    { LifecycleRow(u, t, st) : u \in Users, t \in JobTypes, st \in Statuses }

\* the task id a lifecycle row carries is the id of its own job
Keyed(id, row) ==
    IF row.status # "absent" /\ row.celery_task_id # NoTask
    THEN [row EXCEPT !.celery_task_id = id]
    ELSE row

InitApiJobs ==
    /\ \E tbl \in [JobIds -> LifecycleRows \cup {NoJob}] :
          jobs = [id \in JobIds |-> Keyed(id, tbl[id])]
    /\ clock = 0
    /\ createPc = [id \in JobIds |-> "none"]
    /\ cancelPc = [id \in JobIds |-> "idle"]
    /\ cancelTok = [id \in JobIds |-> NoTask]
    /\ cancelUser = [id \in JobIds |-> None]
    /\ queue = {}
    /\ running = [id \in JobIds |-> 0]
    /\ revoked = {}
    /\ attempts = [id \in JobIds |-> 0]
    /\ last = Quiet

NextApi ==
    \/ \E u \in Users, id \in JobIds : GetJob(u, id)
    \/ \E u \in Users, id \in JobIds : GetDiarization(u, id)
    \/ \E u \in Users, f \in StatusFilters, o \in Offsets : ListJobs(u, f, o)
    \/ \E u \in Users, id \in JobIds : CancelJob(u, id)
    \/ \E id \in JobIds : CancelWrite(id)

\* =========================================================================
\* JobRepository called in any order (SpecStore)
\* =========================================================================
ErrorArgs == {None, "backend error"}
ResultArgs == {None, "result"}
PercentArgs == {50, 100}

StoreFrame == UNCHANGED <<createPc, cancelPc, cancelTok, cancelUser, queue, running, revoked, attempts, last>>

StoreCreate(webhook_url) ==
    \E id \in JobIds :
        /\ FreshId(id)
        /\ jobs' = create(jobs, id, "transcription", Params("transcription"), ApiKeyOf("alice"), "alice",
                          webhook_url, clock)
        /\ UNCHANGED clock /\ StoreFrame /\ UNCHANGED <<rlVars, hookVars, httpVars, keyVars, transVars>>

StoreUpdateStatus(id, status, error_message) ==
    /\ Exists(jobs, id)
    /\ jobs' = update_status(jobs, id, status, error_message,
                             IF error_message = None THEN None ELSE "JOB_ERROR", clock)
    /\ UNCHANGED clock /\ StoreFrame /\ UNCHANGED <<rlVars, hookVars, httpVars, keyVars, transVars>>

StoreUpdateProgress(id, percent) ==
    /\ Exists(jobs, id)
    /\ jobs' = update_progress(jobs, id, percent, None, clock)
    /\ UNCHANGED clock /\ StoreFrame /\ UNCHANGED <<rlVars, hookVars, httpVars, keyVars, transVars>>

StoreSetResult(id, result) ==
    /\ Exists(jobs, id)
    /\ jobs' = set_result(jobs, id, result, clock)
    /\ UNCHANGED clock /\ StoreFrame /\ UNCHANGED <<rlVars, hookVars, httpVars, keyVars, transVars>>

StoreSetCeleryTaskId(id) ==
    /\ Exists(jobs, id)
    /\ jobs' = set_celery_task_id(jobs, id, id, clock)
    /\ UNCHANGED clock /\ StoreFrame /\ UNCHANGED <<rlVars, hookVars, httpVars, keyVars, transVars>>

StoreMarkWebhookSent(id) ==
    /\ Exists(jobs, id)
    /\ jobs' = mark_webhook_sent(jobs, id, clock)
    /\ UNCHANGED clock /\ StoreFrame /\ UNCHANGED <<rlVars, hookVars, httpVars, keyVars, transVars>>

NextStore ==
    \/ Tick
    \/ \E w \in WebhookUrls : StoreCreate(w)
    \/ \E id \in JobIds, st \in Statuses, e \in ErrorArgs : StoreUpdateStatus(id, st, e)
    \/ \E id \in JobIds, pc \in PercentArgs : StoreUpdateProgress(id, pc)
    \/ \E id \in JobIds, r \in ResultArgs : StoreSetResult(id, r)
    \/ \E id \in JobIds : StoreSetCeleryTaskId(id)
    \/ \E id \in JobIds : StoreMarkWebhookSent(id)

\* =========================================================================
\* Progress updates (SpecProgress): JobRepository.update_progress called,
\* as time passes, on a job at any point of its lifecycle
\* =========================================================================
ProgressArgs == {25, 50, 100}
MessageArgs == {None, "decoding"}

\* the row of one job at some point of its lifecycle
\* ------------------------------------------------ SpecRetry: worker retries
\* every job has been created and enqueued; workers execute, retry, fail,
\* succeed, die and get messages redelivered
InitRetryJobs ==
    /\ \E tbl \in [JobIds -> { LifecycleRow(u, t, "queued") : u \in Users, t \in JobTypes }] :
          jobs = [id \in JobIds |-> Keyed(id, tbl[id])]
    /\ clock = 0
    /\ createPc = [id \in JobIds |-> "done"]
    /\ cancelPc = [id \in JobIds |-> "idle"]
    /\ cancelTok = [id \in JobIds |-> NoTask]
    /\ cancelUser = [id \in JobIds |-> None]
    /\ queue = JobIds
    /\ running = [id \in JobIds |-> 0]
    /\ revoked = {}
    /\ attempts = [id \in JobIds |-> 0]
    /\ last = Quiet

NextRetry ==
    \/ \E id \in JobIds : WorkerStart(id)
    \/ \E id \in JobIds : WorkerRetry(id)
    \/ \E id \in JobIds : WorkerFail(id)
    \/ \E id \in JobIds : WorkerSucceed(id)
    \/ \E id \in JobIds : WorkerRedeliver(id)
    \/ \E id \in JobIds : WorkerLost(id)

\* --------------------------------------------- SpecTimeout: time limits
\* time passes while tasks execute; the pool enforces the hard limit, so the
\* clock does not pass the hard limit of a task that is still executing
Elapse ==
    /\ clock < MaxElapsed
    /\ \A id \in JobIds : running[id] > 0 => clock < jobs[id].started_at + TimeLimit
    /\ clock' = clock + 1
    /\ last' = Quiet
    /\ UNCHANGED <<jobs, createPc, cancelPc, cancelTok, cancelUser, queue, running, revoked, attempts>>
    /\ UNCHANGED <<rlVars, hookVars, httpVars, keyVars, transVars>>

\* task_soft_time_limit: the task is interrupted at the soft limit and fails
\* the job with the timeout error
WorkerSoftTimeLimit(id) ==
    /\ running[id] > 0
    /\ clock >= jobs[id].started_at + SoftTimeLimit
    /\ jobs' = update_status(jobs, id, "failed", "Job processing timed out", "JOB_TIMEOUT", clock)
    /\ transcriptions' = transcription_update_status(transcriptions, id, "failed",
                                                     "Job processing timed out", clock)
    /\ running' = [running EXCEPT ![id] = @ - 1]
    /\ last' = Quiet
    /\ UNCHANGED <<clock, createPc, cancelPc, cancelTok, cancelUser, queue, revoked, attempts>>
    /\ UNCHANGED <<rlVars, hookVars, httpVars, keyVars>>

\* task_time_limit: a task still executing at the hard limit has its process
\* killed by the pool; the killed process writes nothing
WorkerTimeLimit(id) ==
    /\ running[id] > 0
    /\ clock >= jobs[id].started_at + TimeLimit
    /\ running' = [running EXCEPT ![id] = @ - 1]
    /\ last' = Quiet
    /\ UNCHANGED <<jobs, clock, createPc, cancelPc, cancelTok, cancelUser, queue, revoked, attempts>>
    /\ UNCHANGED <<rlVars, hookVars, httpVars, keyVars, transVars>>

NextTimeout ==
    \/ Elapse
    \/ \E id \in JobIds : WorkerStart(id)
    \/ \E id \in JobIds : WorkerSoftTimeLimit(id)
    \/ \E id \in JobIds : WorkerTimeLimit(id)
    \/ \E id \in JobIds : WorkerSucceed(id)
    \/ \E id \in JobIds : WorkerLost(id)

\* ------------------------------------------------ SpecKeys: API key rows
KeyFrame ==
    /\ UNCHANGED <<clock, createPc, cancelPc, cancelTok, cancelUser, queue, running, revoked, attempts>>
    /\ UNCHANGED <<rlVars, hookVars, httpVars>>

\* ON DELETE SET NULL on the rows that point to this key
SetNull(tbl, k) ==
    [id \in DOMAIN tbl |->
        IF tbl[id].status # "absent" /\ tbl[id].api_key_id = k
        THEN [tbl[id] EXCEPT !.api_key_id = None]
        ELSE tbl[id]]

\* APIKeyRepository.create: a key under an id no row has
KeyCreate(k) ==
    /\ ~api_keys[k].present
    /\ api_keys' = [api_keys EXCEPT ![k] = NewKey]
    /\ last' = Handled("key_create", None, 0, Proceed)
    /\ UNCHANGED <<jobs, transcriptions>> /\ KeyFrame

\* APIKeyRepository.update_last_used
KeyUpdateLastUsed(k) ==
    /\ api_keys[k].present
    /\ api_keys' = [api_keys EXCEPT ![k].last_used_at = clock]
    /\ last' = Handled("key_update_last_used", None, 0, Proceed)
    /\ UNCHANGED <<jobs, transcriptions>> /\ KeyFrame

\* APIKeyRepository.revoke
KeyRevoke(k) ==
    /\ api_keys[k].present
    /\ api_keys' = [api_keys EXCEPT ![k].is_revoked = TRUE]
    /\ last' = Handled("key_revoke", None, 0, Proceed)
    /\ UNCHANGED <<jobs, transcriptions>> /\ KeyFrame

\* APIKeyRepository.delete: session.delete removes the row; the foreign keys
\* jobs.api_key_id and transcriptions.api_key_id are declared ondelete SET NULL
KeyDelete(k) ==
    /\ api_keys[k].present
    /\ api_keys' = [api_keys EXCEPT ![k] = NoKey]
    /\ jobs' = SetNull(jobs, k)
    /\ transcriptions' = SetNull(transcriptions, k)
    /\ last' = Handled("key_delete", None, 0, Proceed)
    /\ KeyFrame

\* a creation request under a key: the foreign key jobs.api_key_id admits the
\* job's row only while the key's row is there
KeyedCreateJob(user, job_type) ==
    /\ api_keys[ApiKeyOf(user)].present
    /\ CreateJob(user, job_type, "url", None)

NextKeys ==
    \/ Tick
    \/ \E k \in ApiKeys : KeyCreate(k)
    \/ \E k \in ApiKeys : KeyUpdateLastUsed(k)
    \/ \E k \in ApiKeys : KeyRevoke(k)
    \/ \E k \in ApiKeys : KeyDelete(k)
    \/ \E u \in Users, t \in JobTypes : KeyedCreateJob(u, t)

\* ------------------------------------------- SpecLive: fair scheduling
\* creation requests and workers with nothing going wrong: the broker takes
\* every task, no worker dies, nobody cancels
NextLive ==
    \/ Tick
    \/ \E u \in Users, t \in JobTypes, s \in Sources, w \in WebhookUrls : CreateJob(u, t, s, w)
    \/ \E id \in JobIds : CreateDelay(id)
    \/ \E id \in JobIds : CreateRecord(id)
    \/ \E id \in JobIds : WorkerStart(id)
    \/ \E id \in JobIds, p \in Percents : WorkerProgress(id, p)
    \/ \E id \in JobIds : WorkerSucceed(id)
    \/ \E id \in JobIds : WorkerFail(id)

\* a handler that has begun runs to its end, a worker takes a task that is
\* waiting, and the backend answers a task that is being executed
Fairness ==
    /\ WF_vars(\E id \in JobIds : CreateDelay(id))
    /\ WF_vars(\E id \in JobIds : CreateRecord(id))
    /\ \A id \in JobIds : WF_vars(WorkerStart(id))
    /\ \A id \in JobIds : WF_vars(WorkerSucceed(id) \/ WorkerFail(id))

\* ------------------------------- SpecTrans: transcriptions and their jobs
\* creation requests, cancel requests and GET /v1/transcriptions/{id}
NextTrans ==
    \/ Tick
    \/ \E u \in Users, s \in Sources : CreateJob(u, "transcription", s, None)
    \/ \E id \in JobIds : CreateDelay(id)
    \/ \E id \in JobIds : CreateRecord(id)
    \/ \E u \in Users, id \in JobIds : CancelJob(u, id)
    \/ \E id \in JobIds : CancelWrite(id)
    \/ \E u \in Users, id \in JobIds : GetTranscription(u, id)

InitProgressJobs ==
    /\ \E tbl \in [JobIds -> { LifecycleRow("alice", "transcription", st) : st \in Statuses }] :
          jobs = [id \in JobIds |-> Keyed(id, tbl[id])]
    /\ clock = 0
    /\ createPc = [id \in JobIds |-> "done"]
    /\ cancelPc = [id \in JobIds |-> "idle"]
    /\ cancelTok = [id \in JobIds |-> NoTask]
    /\ cancelUser = [id \in JobIds |-> None]
    /\ queue = {}
    /\ running = [id \in JobIds |-> 0]
    /\ revoked = {}
    /\ attempts = [id \in JobIds |-> 0]
    /\ last = Quiet

\* job_repo.update_progress(job_id, percent, message)
ProgressUpdate(id, percent, message) ==
    /\ Exists(jobs, id)
    /\ jobs' = update_progress(jobs, id, percent, message, clock)
    /\ last' = Handled("update_progress", None, id, Proceed)
    /\ UNCHANGED <<clock, createPc, cancelPc, cancelTok, cancelUser, queue, running, revoked, attempts>>
    /\ UNCHANGED <<rlVars, hookVars, httpVars, keyVars, transVars>>

NextProgress ==
    \/ Tick
    \/ \E id \in JobIds, pc \in ProgressArgs, m \in MessageArgs : ProgressUpdate(id, pc, m)

\* =========================================================================
\* RateLimiter.check_rate_limit on the Redis sorted sets (SpecRL)
\* =========================================================================
TimeSteps == {0, 1, 30, 60}

\* APIKey.rate_limit of the credential; 0 stands for a NULL column
RateLimitOf(key) == IF key = "k1" THEN 1 ELSE 0

\* limit or self.default_limit
EffectiveLimit(limit) == IF limit # 0 THEN limit ELSE DefaultLimit

\* f"ratelimit:{key}": every credential alike
redis_key_shared(key) == "ratelimit:"

\* f"ratelimit:{key}"
redis_key(key) == "ratelimit:" \o key

\* str(now): the member of the entry a request adds
Member(now) == ToString(now)

\* the sorted set stored under a key at this time: a key past its expiry is gone
Stored(sets, expiry, key, at) ==
    IF key \in DOMAIN sets /\ at < expiry[key] THEN sets[key] ELSE {}

\* ZREMRANGEBYSCORE key min max
zremrangebyscore(zset, min, max) == { e \in zset : ~(min <= e.score /\ e.score <= max) }

\* ZCARD key
zcard(zset) == Cardinality(zset)

\* ZADD key score member: a member already in the set takes the new score
zadd(zset, member, score) ==
    { e \in zset : e.member # member } \cup { [member |-> member, score |-> score] }

Max0(n) == IF n > 0 THEN n ELSE 0

\* what check_rate_limit returns or raises once the pipeline has answered
Outcome(key, limit, now, current_count) ==
    LET effective_limit == EffectiveLimit(limit)
        total_limit == effective_limit + Burst
    IN  [ key |-> key,
          now |-> now,
          current_count |-> current_count,
          allowed |-> ~(current_count >= total_limit),
          limit |-> effective_limit,
          remaining |-> IF current_count >= total_limit THEN 0
                        ELSE Max0(total_limit - current_count - 1),
          reset_at |-> now + WindowSeconds ]

\* a function with one more key
Put(f, key, value) ==
    [ k \in DOMAIN f \cup {key} |-> IF k = key THEN value ELSE f[k] ]

InitRL ==
    /\ zsets = <<>>
    /\ expireAt = <<>>
    /\ rlClock = 0
    /\ inflight = {}
    /\ rlLog = <<>>

\* check_rate_limit up to the await: now = time.time(), the pipeline is built.
\* A round trip to Redis is short against the window: while a request is in
\* flight the clock moves by a second at most.
RLBegin(key, step) ==
    /\ Len(rlLog) + Cardinality(inflight) < MaxRequests
    /\ Cardinality(inflight) < MaxInflight
    /\ step > 1 => inflight = {}
    /\ rlClock' = rlClock + step
    /\ inflight' = inflight \cup
          { [ id |-> Len(rlLog) + Cardinality(inflight) + 1, key |-> key, now |-> rlClock + step ] }
    /\ UNCHANGED <<zsets, expireAt, rlLog>>
    /\ UNCHANGED <<jobVars, hookVars, httpVars, keyVars, transVars>>

\* pipe.execute(): Redis runs the four commands as one transaction, then the
\* count decides
RLExecute(req) ==
    LET rkey == redis_key(req.key)
        window_start == req.now - WindowSeconds
        z0 == Stored(zsets, expireAt, rkey, rlClock)
        z1 == zremrangebyscore(z0, 0, window_start)
        current_count == zcard(z1)
        z2 == zadd(z1, Member(req.now), req.now)
    IN  /\ req \in inflight
        /\ zsets' = Put(zsets, rkey, z2)
        /\ expireAt' = Put(expireAt, rkey, rlClock + WindowSeconds + ExpireSlack)
        /\ inflight' = inflight \ {req}
        /\ rlLog' = Append(rlLog, Outcome(req.key, RateLimitOf(req.key), req.now, current_count))
        /\ UNCHANGED rlClock
        /\ UNCHANGED <<jobVars, hookVars, httpVars, keyVars, transVars>>

NextRL ==
    \/ \E k \in ApiKeys, d \in TimeSteps : RLBegin(k, d)
    \/ \E r \in inflight : RLExecute(r)

\* SpecIso: the requests of two credentials interleaved, at the same instant,
\* a second apart or a window apart
IsoSteps == {0, 1, 60}

NextIso ==
    \/ \E k \in ApiKeys, d \in IsoSteps :
          /\ Len(rlLog) + Cardinality(inflight) < MaxIso
          /\ RLBegin(k, d)
    \/ \E r \in inflight : RLExecute(r)

\* =========================================================================
\* The webhook notifier (SpecHook).  JobRepository.get_pending_webhooks and
\* mark_webhook_sent are the repository's; the periodic task
\* send_pending_webhooks (src/workers/tasks/webhooks.py, scheduled every 60 s
\* by beat_schedule) is not part of the sources: its run follows the
\* specification: read the pending webhooks, then for each job one delivery
\* attempt and mark_webhook_sent.
\* =========================================================================
MaxRuns == 2
PendingLimit == 100
Runs == 1..MaxRuns

Min2(a, b) == IF a < b THEN a ELSE b
Least(S) == CHOOSE x \in S : \A y \in S : x <= y

RECURSIVE AsSeq(_)
AsSeq(S) == IF S = {} THEN <<>> ELSE <<Least(S)>> \o AsSeq(S \ {Least(S)})

\* get_pending_webhooks that does not look at webhook_sent
get_pending_webhooks_any_flag(tbl, limit) ==
    LET match == { id \in DOMAIN tbl :
                     /\ Exists(tbl, id)
                     /\ tbl[id].status \in {"completed", "failed"}
                     /\ tbl[id].webhook_url # None }
    IN  { S \in SUBSET match : Cardinality(S) = Min2(limit, Cardinality(match)) }

\* JobRepository.get_pending_webhooks: the result sets the query may return
\* (LIMIT without ORDER BY returns any :limit of the matching rows)
get_pending_webhooks(tbl, limit) ==
    LET match == { id \in DOMAIN tbl :
                     /\ Exists(tbl, id)
                     /\ tbl[id].status \in {"completed", "failed"}
                     /\ tbl[id].webhook_url # None
                     /\ tbl[id].webhook_sent = FALSE }
    IN  { S \in SUBSET match : Cardinality(S) = Min2(limit, Cardinality(match)) }

HookJobFrame == UNCHANGED <<clock, createPc, cancelPc, cancelTok, cancelUser, queue, running, revoked, attempts>>

\* the statuses the jobs the notifier runs over start in
HookStatuses == {"processing", "cancelled"}

\* jobs being processed and jobs that were cancelled, with or without a
\* webhook URL
InitHookJobs ==
    /\ \E w \in [JobIds -> WebhookUrls], st \in [JobIds -> HookStatuses] :
          /\ jobs = [id \in JobIds |->
                       [LifecycleRow("alice", "transcription", st[id])
                           EXCEPT !.webhook_url = w[id], !.celery_task_id = id]]
          /\ running = [id \in JobIds |-> IF st[id] = "processing" THEN 1 ELSE 0]
    /\ clock = 0
    /\ createPc = [id \in JobIds |-> "done"]
    /\ cancelPc = [id \in JobIds |-> "idle"]
    /\ cancelTok = [id \in JobIds |-> NoTask]
    /\ cancelUser = [id \in JobIds |-> None]
    /\ queue = {}
    /\ revoked = {}
    /\ attempts = [id \in JobIds |-> 0]
    /\ last = Quiet

InitHook ==
    /\ hookPc = [r \in Runs |-> "idle"]
    /\ hookTodo = [r \in Runs |-> {}]
    /\ delivered = [id \in JobIds |-> 0]

\* a run starts: job_repo.get_pending_webhooks()
HookPoll(r) ==
    /\ hookPc[r] = "idle"
    /\ \E S \in get_pending_webhooks(jobs, PendingLimit) :
          /\ hookTodo' = [hookTodo EXCEPT ![r] = S]
          /\ last' = Handled("get_pending_webhooks", None, 0,
                             Response(200, None, 0, None, None, AsSeq(S)))
    /\ hookPc' = [hookPc EXCEPT ![r] = "polled"]
    /\ UNCHANGED <<jobs, delivered>>
    /\ HookJobFrame
    /\ UNCHANGED <<rlVars, httpVars, keyVars, transVars>>

\* the single delivery attempt for the next job of the run
HookDeliver(r) ==
    /\ hookPc[r] \in {"polled", "next"}
    /\ hookTodo[r] # {}
    /\ delivered' = [delivered EXCEPT ![Least(hookTodo[r])] = @ + 1]
    /\ hookPc' = [hookPc EXCEPT ![r] = "mark"]
    /\ last' = Quiet
    /\ UNCHANGED <<jobs, hookTodo>>
    /\ HookJobFrame
    /\ UNCHANGED <<rlVars, httpVars, keyVars, transVars>>

\* whatever the outcome of the attempt: job_repo.mark_webhook_sent(job.id)
HookMark(r) ==
    /\ hookPc[r] = "mark"
    /\ jobs' = mark_webhook_sent(jobs, Least(hookTodo[r]), clock)
    /\ hookTodo' = [hookTodo EXCEPT ![r] = @ \ {Least(hookTodo[r])}]
    /\ hookPc' = [hookPc EXCEPT ![r] = "next"]
    /\ last' = Quiet
    /\ UNCHANGED delivered
    /\ HookJobFrame
    /\ UNCHANGED <<rlVars, httpVars, keyVars, transVars>>

\* the run ends
HookDone(r) ==
    /\ hookPc[r] \in {"polled", "next"}
    /\ hookTodo[r] = {}
    /\ hookPc' = [hookPc EXCEPT ![r] = "idle"]
    /\ last' = Quiet
    /\ UNCHANGED <<jobs, hookTodo, delivered>>
    /\ HookJobFrame
    /\ UNCHANGED <<rlVars, httpVars, keyVars, transVars>>

NextHook ==
    \/ \E id \in JobIds : WorkerSucceed(id)
    \/ \E id \in JobIds : WorkerFail(id)
    \/ \E r \in Runs : HookPoll(r)
    \/ \E r \in Runs : HookDeliver(r)
    \/ \E r \in Runs : HookMark(r)
    \/ \E r \in Runs : HookDone(r)


\* =========================================================================
\* One HTTP request through the application (SpecReq): the dependencies of
\* the route (get_current_user, then check_rate_limit on the routes declared
\* with RateLimitedUser), the handler, and the exception handlers of
\* api/main.py.  src/core/auth.py is not part of the sources:
\* get_current_user follows the specification and the tests (a request
\* without a valid Bearer credential is answered 401).
\* =========================================================================
MaxHttp == 3

Endpoints ==
    { "list_models", "chat_completions", "create_transcription", "sync_transcription",
      "create_diarization", "get_transcription", "get_diarization",
      "list_jobs", "get_job", "cancel_job" }

\* the routes whose user parameter is a RateLimitedUser
RateLimitedEndpoints ==
    { "chat_completions", "create_transcription", "sync_transcription", "create_diarization" }

\* the routes that create a job
CreateEndpoints == { "create_transcription", "create_diarization" }

\* the routes whose handler calls uuid.UUID on a path parameter
PathIdEndpoints == { "get_transcription", "get_diarization", "get_job", "cancel_job" }

\* what the request carries as credential
Credentials == { "missing", "basic", "empty_token", "wrong_header", "k1" }

\* request.state.redis: never set ("none"), a client whose server answers
\* ("up"), a client whose pipeline execution raises ("down")
RedisStates == { "none", "up", "down" }

NoUser == [user_id |-> None, api_key_id |-> None, rate_limit |-> 0]

\* get_current_user: the AuthenticatedUser of a valid key, NoUser for the
\* AuthenticationError (401)
get_current_user(cred) ==
    IF cred \in ApiKeys
    THEN [user_id |-> "alice", api_key_id |-> cred, rate_limit |-> RateLimitOf(cred)]
    ELSE NoUser

NoHeaders == <<>>

\* RateLimiter.add_rate_limit_headers
add_rate_limit_headers(limit, remaining, reset_at) ==
    [ h \in {"X-RateLimit-Limit", "X-RateLimit-Remaining", "X-RateLimit-Reset"} |->
        CASE h = "X-RateLimit-Limit" -> limit
          [] h = "X-RateLimit-Remaining" -> remaining
          [] OTHER -> reset_at ]

\* the dependency check_rate_limit with RateLimiter.check_rate_limit: what it
\* does to Redis, whether it returns ("ok"), raises RateLimitError
\* ("limited") or lets the exception of pipe.execute() through ("error"),
\* and the headers it has set on the response when it returns
rate_limit_dependency(user, redis, sets, expiry, now) ==
    LET rkey == redis_key(user.api_key_id)
        z0 == Stored(sets, expiry, rkey, now)
        z1 == zremrangebyscore(z0, 0, now - WindowSeconds)
        z2 == zadd(z1, Member(now), now)
        out == Outcome(user.api_key_id, user.rate_limit, now, zcard(z1))
    IN  CASE redis = "none" ->
               [ result |-> "ok", sets |-> sets, expiry |-> expiry,
                 headers |-> add_rate_limit_headers(DefaultLimit, DefaultLimit, 0) ]
          [] redis = "down" ->
               [ result |-> "error", sets |-> sets, expiry |-> expiry, headers |-> NoHeaders ]
          [] OTHER ->
               [ result |-> IF out.allowed THEN "ok" ELSE "limited",
                 sets |-> Put(sets, rkey, z2),
                 expiry |-> Put(expiry, rkey, now + WindowSeconds + ExpireSlack),
                 headers |-> IF out.allowed
                             THEN add_rate_limit_headers(out.limit, out.remaining, out.reset_at)
                             ELSE NoHeaders ]

\* a route without the rate-limit dependency
NoRateLimit(sets, expiry) ==
    [ result |-> "ok", sets |-> sets, expiry |-> expiry, headers |-> NoHeaders ]

\* the dependencies with the rate limiter running ahead of authentication,
\* on the credential as presented
dependencies_limit_before_auth(ep, cred, redis, sets, expiry, now) ==
    LET user == get_current_user(cred)
        rl == IF ep \in RateLimitedEndpoints
              THEN rate_limit_dependency([user EXCEPT !.api_key_id = cred], redis, sets, expiry, now)
              ELSE NoRateLimit(sets, expiry)
    IN  IF user = NoUser THEN [rl EXCEPT !.result = "unauthenticated", !.headers = NoHeaders]
        ELSE rl

\* the dependencies of a route, solved in order: get_current_user, then
\* check_rate_limit (which takes the user get_current_user returned) on the
\* routes declared with RateLimitedUser
dependencies(ep, cred, redis, sets, expiry, now) ==
    LET user == get_current_user(cred)
    IN  IF user = NoUser
        THEN [ result |-> "unauthenticated", sets |-> sets, expiry |-> expiry,
               headers |-> NoHeaders ]
        ELSE IF ep \in RateLimitedEndpoints
             THEN rate_limit_dependency(user, redis, sets, expiry, now)
             ELSE NoRateLimit(sets, expiry)

\* what a handler did: the status code, whether it ended by an exception
\* (the exception handlers then build the response), and the tables
Did(status, raised, tbl, q, rev) ==
    [ status |-> status, raised |-> raised, jobs |-> tbl, queue |-> q, revoked |-> rev ]

\* what a creation request carries as audio: the form fields audio and
\* audio_url, each present or not
AudioSources == { "none", "upload", "url", "both" }

\* create_transcription / create_diarization: `if audio is not None` is
\* tested first (the upload is stored and its task queued, whatever
\* audio_url is), then audio_url; with neither InvalidAudioFormatError (422)
\* is raised before any row is written
create_handler(ep, user, id, src, tbl, q, rev, now) ==
    LET job_type == IF ep = "create_transcription" THEN "transcription" ELSE "diarization"
        t0 == create(tbl, id, job_type, Params(job_type), user.api_key_id, user.user_id, None, now)
    IN  IF src \in {"upload", "both"}
        THEN Did(202, FALSE, set_celery_task_id(t0, id, id, now), q \cup {id}, rev)
        ELSE IF src = "url" THEN Did(202, FALSE, t0, q, rev)
        ELSE Did(422, TRUE, tbl, q, rev)

\* the handlers that take an id in the path: uuid.UUID(job_id) raises
\* ValueError on an id that is not well formed, which no handler of
\* LexiaAPIError catches
path_handler(ep, user, wellformed, id, tbl, q, rev, now) ==
    LET found == CASE ep = "get_job" -> get_job(tbl, user.user_id, id)
                   [] ep = "get_diarization" -> get_diarization(tbl, user.user_id, id)
                   [] ep = "cancel_job" -> cancel_job_checks(tbl, user.user_id, id)
                   [] OTHER ->
                        \* get_transcription: the transcription row is created
                        \* with its job and carries the job's owner
                        IF Exists(tbl, id) /\ tbl[id].type = "transcription"
                                           /\ tbl[id].user_id = user.user_id
                        THEN Ok(200, None) ELSE JobNotFoundError(id)
    IN  IF ~wellformed THEN Did(500, TRUE, tbl, q, rev)
        ELSE IF found = Proceed
             THEN Did(204, FALSE, update_status(tbl, id, "cancelled", None, None, now), q,
                      IF tbl[id].celery_task_id # NoTask
                      THEN rev \cup {tbl[id].celery_task_id} ELSE rev)
        ELSE Did(found.code, found.code >= 400, tbl, q, rev)

\* the handler of a route, run once the dependencies have returned
handler(ep, user, wellformed, id, src, backend_up, tbl, q, rev, now) ==
    CASE ep \in CreateEndpoints ->
            create_handler(ep, user, id, src, tbl, q, rev, now)
      [] ep \in PathIdEndpoints -> path_handler(ep, user, wellformed, id, tbl, q, rev, now)
      [] ep \in {"chat_completions", "sync_transcription"} ->
            IF backend_up THEN Did(200, FALSE, tbl, q, rev) ELSE Did(503, TRUE, tbl, q, rev)
      [] OTHER -> Did(200, FALSE, tbl, q, rev)

\* a request (endpoint, credential, the state of Redis, whether its path id
\* is well formed, its audio source) and its response (how the dependencies ended, the status
\* code, the headers)
Exchange(n, ep, cred, redis, wellformed, src, deps, status, headers) ==
    [ n |-> n, ep |-> ep, cred |-> cred, redis |-> redis, wellformed |-> wellformed,
      src |-> src, deps |-> deps, status |-> status, headers |-> headers ]

InitHttp == http = Exchange(0, "none", "missing", "none", TRUE, "url", "none", 0, NoHeaders)

\* a request from its arrival to its response.  The headers the dependency
\* set travel on the response the handler's return value is turned into; a
\* response built by an exception handler is a new JSONResponse without them.
HttpRequest(ep, cred, redis, wellformed, id, src, backend_up) ==
    LET now == rlClock + 1
        deps == dependencies(ep, cred, redis, zsets, expireAt, now)
        did == IF deps.result = "ok"
               THEN handler(ep, get_current_user(cred), wellformed, id, src, backend_up,
                            jobs, queue, revoked, clock)
               ELSE Did(CASE deps.result = "unauthenticated" -> 401
                          [] deps.result = "limited" -> 429
                          [] OTHER -> 500,
                        TRUE, jobs, queue, revoked)
    IN  /\ http.n < MaxHttp
        /\ cred \in ApiKeys /\ ep \in CreateEndpoints /\ src # "none" => FreshId(id)
        /\ rlClock' = now
        /\ zsets' = deps.sets
        /\ expireAt' = deps.expiry
        /\ jobs' = did.jobs
        /\ queue' = did.queue
        /\ revoked' = did.revoked
        /\ createPc' = IF did.status = 202 THEN [createPc EXCEPT ![id] = "done"] ELSE createPc
        /\ http' = Exchange(http.n + 1, ep, cred, redis, wellformed, src, deps.result, did.status,
                            IF did.raised THEN NoHeaders ELSE deps.headers)
        /\ UNCHANGED <<clock, cancelPc, cancelTok, cancelUser, running, attempts, last>>
        /\ transcriptions' =
              IF did.status = 202 /\ ep = "create_transcription"
              THEN transcription_create(transcriptions, id, id, cred, get_current_user(cred).user_id)
              ELSE transcriptions
        /\ UNCHANGED <<inflight, rlLog>>
        /\ UNCHANGED <<hookVars, keyVars>>

\* the requests; an input the request does not read is held at one value
NextReq ==
    \E ep \in Endpoints, cred \in Credentials :
    \E redis \in (IF ep \in RateLimitedEndpoints THEN RedisStates ELSE {"none"}),
       wellformed \in (IF ep \in PathIdEndpoints THEN BOOLEAN ELSE {TRUE}),
       id \in (IF cred \in ApiKeys /\ ep \in PathIdEndpoints \cup CreateEndpoints
               THEN JobIds ELSE {1}),
       src \in (IF cred \in ApiKeys /\ ep \in CreateEndpoints THEN AudioSources ELSE {"url"}),
       backend_up \in (IF cred \in ApiKeys /\ ep \in {"chat_completions", "sync_transcription"}
                       THEN BOOLEAN ELSE {TRUE}) :
        HttpRequest(ep, cred, redis, wellformed, id, src, backend_up)

Init == InitJobs /\ InitRL /\ InitHook /\ InitHttp /\ InitKeys /\ InitTranscriptions
InitApi == InitApiJobs /\ InitRL /\ InitHook /\ InitHttp /\ InitKeys /\ InitTranscriptions
InitHookAll == InitHookJobs /\ InitRL /\ InitHook /\ InitHttp /\ InitKeys /\ InitTranscriptions
InitProgress == InitProgressJobs /\ InitRL /\ InitHook /\ InitHttp /\ InitKeys /\ InitTranscriptions
InitRetry == InitRetryJobs /\ InitRL /\ InitHook /\ InitHttp /\ InitKeys /\ InitTranscriptions

Spec == Init /\ [][Next]_vars
SpecApi == InitApi /\ [][NextApi]_vars
SpecStore == Init /\ [][NextStore]_vars
SpecRL == Init /\ [][NextRL]_vars
SpecHook == InitHookAll /\ [][NextHook]_vars
SpecReq == Init /\ [][NextReq]_vars
SpecProgress == InitProgress /\ [][NextProgress]_vars
SpecRetry == InitRetry /\ [][NextRetry]_vars
SpecTimeout == InitRetry /\ [][NextTimeout]_vars
SpecKeys == Init /\ [][NextKeys]_vars
SpecIso == Init /\ [][NextIso]_vars
SpecLive == Init /\ [][NextLive]_vars /\ Fairness
SpecTrans == Init /\ [][NextTrans]_vars

\* =========================================================================
\* The mock diarization backend (SpecDiar): MockDiarizationBackend of
\* services/diarization/mock_backend.py with generate_rttm and
\* compute_speaker_stats of services/diarization/base.py.  Times are in
\* milliseconds; a text is the sequence of its lines and line separators.
\* =========================================================================
MaxAudio == 5           \* longest audio_data, in blocks of BlockBytes bytes

BlockBytes == 256       \* 8 ms of audio at 16000 * 2 bytes per second
BytesPerMs == 32        \* 16000 * 2 bytes per second
MockSegments == 8       \* range(8)
MockSpeakers == 2       \* num_speakers = 2 of _generate_mock_result
MockDuration == 60000   \* duration = 60.0 of diarize

\* the values of the form field num_speakers (0 for None)
SpeakerCounts == {0, 1, 2, 3}
\* the values of min_speakers and max_speakers (0 for None)
SpeakerBounds == {0, 2}
AudioLengths == { k * BlockBytes : k \in 0..MaxAudio }

NewLine == "\n"

\* f"SPEAKER_{i % num_speakers:02d}"
SpeakerId(i, num_speakers) ==
    IF i % num_speakers < 10 THEN "SPEAKER_0" \o ToString(i % num_speakers)
    ELSE "SPEAKER_" \o ToString(i % num_speakers)

\* the segments of _generate_mock_result: MockSegments segments of equal
\* length, the speakers taking turns
RECURSIVE MockSegmentsFrom(_, _, _)
MockSegmentsFrom(i, current_time, duration) ==
    IF i >= MockSegments THEN <<>>
    ELSE LET segment_duration == duration \div MockSegments
             end_time == Min2(current_time + segment_duration, duration)
         IN  << [ speaker |-> SpeakerId(i, MockSpeakers),
                  start |-> current_time,
                  end |-> end_time ] >>
             \o MockSegmentsFrom(i + 1, end_time, duration)

\* "sep".join(lines)
RECURSIVE Join(_, _)
Join(lines, sep) ==
    IF Len(lines) = 0 THEN <<>>
    ELSE IF Len(lines) = 1 THEN <<lines[1]>>
    ELSE <<lines[1], sep>> \o Join(Tail(lines), sep)

\* the RTTM line of a segment
RttmLine(seg, audio_id) ==
    "SPEAKER " \o audio_id \o " 1 " \o ToString(seg.start) \o " "
        \o ToString(seg.end - seg.start) \o " <NA> <NA> " \o seg.speaker \o " <NA> <NA>"

\* DiarizationBackend.generate_rttm
generate_rttm(segments, audio_id) ==
    Join([ i \in 1..Len(segments) |-> RttmLine(segments[i], audio_id) ], NewLine)

\* the keys of speaker_data, in the order the loop inserts them
RECURSIVE SpeakerOrder(_, _)
SpeakerOrder(segments, seen) ==
    IF Len(segments) = 0 THEN <<>>
    ELSE IF segments[1].speaker \in seen THEN SpeakerOrder(Tail(segments), seen)
    ELSE <<segments[1].speaker>>
         \o SpeakerOrder(Tail(segments), seen \cup {segments[1].speaker})

RECURSIVE SumDurations(_)
SumDurations(segs) ==
    IF Len(segs) = 0 THEN 0
    ELSE (segs[1].end - segs[1].start) + SumDurations(Tail(segs))

\* Speaker(id, total_duration, num_segments, avg_segment_duration)
SpeakerStats(speaker_id, segs) ==
    [ id |-> speaker_id,
      total_duration |-> SumDurations(segs),
      num_segments |-> Len(segs),
      avg_segment_duration |-> IF Len(segs) > 0 THEN SumDurations(segs) \div Len(segs) ELSE 0 ]

\* compute_speaker_stats with one entry for each segment
compute_speaker_stats_per_segment(segments) ==
    [ k \in 1..Len(segments) |-> SpeakerStats(segments[k].speaker, <<segments[k]>>) ]

\* DiarizationBackend.compute_speaker_stats, as list(speaker_stats.values())
compute_speaker_stats(segments) ==
    LET order == SpeakerOrder(segments, {})
    IN  [ k \in 1..Len(order) |->
            SpeakerStats(order[k],
                         SelectSeq(segments, LAMBDA seg : seg.speaker = order[k])) ]

\* MockDiarizationBackend._generate_mock_result
generate_mock_result(duration) ==
    LET segments == MockSegmentsFrom(0, 0, duration)
        overlaps == IF Len(segments) > 2
                    THEN << [ speakers |-> <<"SPEAKER_00", "SPEAKER_01">>,
                              start |-> segments[2].end - 500,
                              end |-> segments[2].end,
                              duration |-> 500 ] >>
                    ELSE <<>>
    IN  [ speakers |-> compute_speaker_stats(segments),
          segments |-> segments,
          overlaps |-> overlaps,
          stats |-> [ audio_duration |-> duration,
                      num_speakers |-> MockSpeakers,
                      num_segments |-> Len(segments),
                      num_overlaps |-> Len(overlaps) ],
          rttm |-> generate_rttm(segments, "mock_audio") ]

\* MockDiarizationBackend.diarize: the speaker counts are not read
diarize(num_speakers, min_speakers, max_speakers) ==
    generate_mock_result(MockDuration)

\* MockDiarizationBackend.diarize_bytes
diarize_bytes(audio_len, num_speakers, min_speakers, max_speakers) ==
    generate_mock_result(audio_len \div BytesPerMs)

\* a call of the backend and what it returned
DiarCall(entry, audio_len, num_speakers, min_speakers, max_speakers, result) ==
    Handled(entry, None, 0,
            [ Proceed EXCEPT !.body =
                [ audio_len |-> audio_len, num_speakers |-> num_speakers,
                  min_speakers |-> min_speakers, max_speakers |-> max_speakers,
                  result |-> result ] ])

DiarFrame ==
    /\ UNCHANGED <<jobs, clock, createPc, cancelPc, cancelTok, cancelUser, queue, running, revoked, attempts>>
    /\ UNCHANGED <<rlVars, hookVars, httpVars, keyVars, transVars>>

\* backend.diarize(audio_path, num_speakers, min_speakers, max_speakers)
Diarize(num_speakers, min_speakers, max_speakers) ==
    /\ last' = DiarCall("diarize", 0, num_speakers, min_speakers, max_speakers,
                        diarize(num_speakers, min_speakers, max_speakers))
    /\ DiarFrame

\* backend.diarize_bytes(audio_data, "wav", num_speakers, min_speakers, max_speakers)
DiarizeBytes(audio_len, num_speakers, min_speakers, max_speakers) ==
    /\ last' = DiarCall("diarize_bytes", audio_len, num_speakers, min_speakers, max_speakers,
                        diarize_bytes(audio_len, num_speakers, min_speakers, max_speakers))
    /\ DiarFrame

NextDiar ==
    \/ \E n \in SpeakerCounts, lo \in SpeakerBounds, hi \in SpeakerBounds : Diarize(n, lo, hi)
    \/ \E len \in AudioLengths, n \in SpeakerCounts, lo \in SpeakerBounds, hi \in SpeakerBounds :
          DiarizeBytes(len, n, lo, hi)

SpecDiar == Init /\ [][NextDiar]_vars

\* =========================================================================
\* Claims on the job lifecycle
\* =========================================================================

\* the edges of the status state machine
Edges ==
    { <<"pending", "queued">>, <<"queued", "processing">>,
      <<"processing", "completed">>, <<"processing", "failed">>,
      <<"queued", "failed">>, <<"pending", "failed">>,
      <<"pending", "cancelled">>, <<"queued", "cancelled">> }

\* C1: in every step, the status of every job either stays what it is or
\* changes along one of the edges pending->queued, queued->processing,
\* processing->completed, processing/queued/pending->failed,
\* pending/queued->cancelled.
C1_OnlyLifecycleEdges ==
    [][ \A id \in JobIds :
            Exists(jobs, id) =>
                \/ jobs'[id].status = jobs[id].status
                \/ <<jobs[id].status, jobs'[id].status>> \in Edges ]_vars

\* C2: terminal states are final: a job whose status is completed, failed or
\* cancelled keeps that status in every later step.
C2_TerminalIsFinal ==
    [][ \A id \in JobIds :
            (Exists(jobs, id) /\ jobs[id].status \in Terminal) =>
                jobs'[id].status = jobs[id].status ]_vars

\* C9: a cancellation arriving after the worker's start transition is not
\* honoured: no step takes a job from processing to cancelled.
C9_NoCancelAfterClaim ==
    [][ \A id \in JobIds :
            (Exists(jobs, id) /\ jobs[id].status = "processing") =>
                jobs'[id].status # "cancelled" ]_vars

\* whether the row carries a result, an error
HasResult(row) == row.result # None
HasError(row) == row.error_message # None \/ row.error_code # None

\* C10: every job whose status is completed or failed has exactly one of
\* result and error set: never both, never neither.
C10_ExactlyOneOfResultError ==
    \A id \in JobIds :
        (Exists(jobs, id) /\ jobs[id].status \in {"completed", "failed"}) =>
            (HasResult(jobs[id]) /\ ~HasError(jobs[id]))
            \/ (~HasResult(jobs[id]) /\ HasError(jobs[id]))

\* =========================================================================
\* Claims on ownership
\* =========================================================================
RequestOps == {"get_job", "get_diarization", "list_jobs", "cancel_job"}
Range(sq) == { sq[k] : k \in DOMAIN sq }

\* C6: a request by a caller who is not the owner of a job never returns the
\* job (get_job, get_diarization, list_jobs), never cancels it, is answered
\* 404 JOB_NOT_FOUND when it names the job, and leaves the job's row as it was.
C6_OwnershipIsolation ==
    [][ last'.op \in RequestOps =>
            \A id \in JobIds :
                (Exists(jobs, id) /\ jobs[id].user_id # last'.user) =>
                    /\ jobs'[id] = jobs[id]
                    /\ last'.job = id =>
                          (last'.resp.code = 404 /\ last'.resp.error = "JOB_NOT_FOUND")
                    /\ id \notin Range(last'.resp.ids) ]_vars

\* C6 witness: bob asked to cancel alice's queued job, was answered 404, and
\* the job is still queued
C6_Witness ==
    /\ last.op = "cancel_job"
    /\ last.user = "bob"
    /\ Exists(jobs, last.job)
    /\ jobs[last.job].user_id = "alice"
    /\ jobs[last.job].status = "queued"
    /\ last.resp.code = 404

\* the table without the row of this id
Without(tbl, id) == [tbl EXCEPT ![id] = NoJob]

\* the answer of a handler that names a job, before any write
HandlerResponse(op, tbl, user, id) ==
    CASE op = "get_job" -> get_job(tbl, user, id)
      [] op = "get_diarization" -> get_diarization(tbl, user, id)
      [] OTHER -> cancel_job_checks(tbl, user, id)

\* C7: for every caller and every job owned by someone else, get_job,
\* get_diarization and cancel_job answer exactly what they answer when no row
\* with that id exists, and so did the last request handled.
C7_NoExistenceLeak ==
    /\ \A u \in Users, id \in JobIds, op \in {"get_job", "get_diarization", "cancel_job"} :
          (Exists(jobs, id) /\ jobs[id].user_id # u) =>
              HandlerResponse(op, jobs, u, id) = HandlerResponse(op, Without(jobs, id), u, id)
    /\ ( /\ last.op \in {"get_job", "get_diarization", "cancel_job"}
         /\ Exists(jobs, last.job)
         /\ jobs[last.job].user_id # last.user )
       => last.resp = HandlerResponse(last.op, Without(jobs, last.job), last.user, last.job)

\* C7 witness: bob asked for alice's diarization job and got the not-found
\* answer
C7_Witness ==
    /\ last.op = "get_diarization"
    /\ last.user = "bob"
    /\ Exists(jobs, last.job)
    /\ jobs[last.job].user_id = "alice"
    /\ jobs[last.job].type = "diarization"
    /\ last.resp = JobNotFoundError(last.job)

\* C8: when the owner's cancel request reads a job whose status is neither
\* pending nor queued, the request is answered 422 VALIDATION_ERROR with
\* details naming that status, and the jobs table is left as it was.
C8_CancelRejectedNamesStatus ==
    [][ \A id \in JobIds :
            ( /\ last'.op = "cancel_job"
              /\ last'.job = id
              /\ ~(cancelPc[id] = "checked" /\ cancelPc'[id] = "idle")
              /\ Exists(jobs, id)
              /\ jobs[id].user_id = last'.user
              /\ jobs[id].status \notin {"pending", "queued"} )
            => /\ last'.resp = ValidationError(jobs[id].status)
               /\ last'.resp.code = 422
               /\ last'.resp.current_status = jobs[id].status
               /\ jobs' = jobs ]_vars

\* C8 witness: the owner asked to cancel a processing job, was answered 422
\* naming "processing", and the job is still processing
C8_Witness ==
    /\ last.op = "cancel_job"
    /\ Exists(jobs, last.job)
    /\ last.user = jobs[last.job].user_id
    /\ jobs[last.job].status = "processing"
    /\ last.resp.code = 422
    /\ last.resp.current_status = "processing"

\* =========================================================================
\* Claims on the rate limiter
\* =========================================================================

\* the outcomes of the requests of one credential, in the order Redis ran them
RECURSIVE OfKey(_, _)
OfKey(log, key) ==
    IF log = <<>> THEN <<>>
    ELSE IF log[1].key = key THEN <<log[1]>> \o OfKey(Tail(log), key)
    ELSE OfKey(Tail(log), key)

\* limit + burst of a credential
Capacity(key) == EffectiveLimit(RateLimitOf(key)) + Burst

\* the first n requests of the sequence lie within one window
WithinOneWindow(sq, n) ==
    \A a, b \in 1..n : sq[a].now - sq[b].now < WindowSeconds

\* C3: of the requests a credential makes within one 60-second window, the
\* first limit+burst are all admitted and the next one is rejected with
\* remaining = 0.
C3_CapacityThenReject ==
    \A key \in ApiKeys :
        LET sq == OfKey(rlLog, key)
        IN  \A n \in 1..Len(sq) :
                WithinOneWindow(sq, n) =>
                    /\ n <= Capacity(key) => sq[n].allowed
                    /\ n = Capacity(key) + 1 => (~sq[n].allowed /\ sq[n].remaining = 0)

\* C4: once a credential has been rejected, a request made a full window or
\* more after every request of that credential admitted so far is admitted.
C4_AdmissionResumes ==
    \A key \in ApiKeys :
        LET sq == OfKey(rlLog, key)
        IN  \A n \in 1..Len(sq) :
                ( /\ \E m \in 1..(n - 1) : ~sq[m].allowed
                  /\ \A m \in 1..(n - 1) :
                        sq[m].allowed => sq[m].now + WindowSeconds <= sq[n].now )
                => sq[n].allowed

\* C5: for every credential, the requests admitted within the 60 seconds up
\* to any admitted request never number more than limit+burst.
C5_NoOverAdmission ==
    \A key \in ApiKeys :
        LET sq == OfKey(rlLog, key)
        IN  \A n \in 1..Len(sq) :
                sq[n].allowed =>
                    Cardinality({ m \in 1..Len(sq) :
                                    /\ sq[m].allowed
                                    /\ sq[m].now <= sq[n].now
                                    /\ sq[m].now > sq[n].now - WindowSeconds })
                        <= Capacity(key)

\* =========================================================================
\* Claims on progress, webhooks and params
\* =========================================================================

\* C11: in every reachable state, the progress percentage of a job is 100
\* exactly when its status is completed.
C11_ProgressHundredIffCompleted ==
    \A id \in JobIds :
        Exists(jobs, id) =>
            (jobs[id].progress_percent = 100 <=> jobs[id].status = "completed")

\* a run of the notifier has just read the pending webhooks
Polled(r) == hookPc[r] = "idle" /\ hookPc'[r] = "polled"

\* C12: marking a job's webhook as sent twice leaves the table as marking it
\* once does; a flag that is set stays set, and a read of the pending
\* webhooks made while the flag is set does not return the job.
C12_MarkIdempotentNeverPendingAgain ==
    [][ \A id \in JobIds :
          /\ mark_webhook_sent(mark_webhook_sent(jobs', id, clock'), id, clock')
                = mark_webhook_sent(jobs', id, clock')
          /\ jobs[id].webhook_sent =>
                /\ jobs'[id].webhook_sent
                /\ \A r \in Runs : Polled(r) => id \notin hookTodo'[r] ]_vars

\* a job that has ended, has a webhook URL, was notified and marked by two
\* runs, and the pending webhooks were just read again without it
C12_Witness ==
    \E id \in JobIds :
        /\ jobs[id].webhook_sent
        /\ jobs[id].status \in {"completed", "failed"}
        /\ jobs[id].webhook_url # None
        /\ delivered[id] = 2
        /\ last.op = "get_pending_webhooks"
        /\ id \notin Range(last.resp.ids)

\* C13: whatever the interleaving of the notifier's runs, no job's webhook
\* is delivered more than once.
C13_DeliveredAtMostOnce ==
    \A id \in JobIds : delivered[id] <= 1

\* no step changes the params of a job
ParamsFrame ==
    [][ \A id \in JobIds : Exists(jobs, id) => jobs'[id].params = jobs[id].params ]_vars

\* C14: the params written when a job is created are not modified by a later
\* operation and the owner's retrieval of the job returns them unchanged.
C14_ParamsRoundTrip ==
    [][ \A id \in JobIds :
          /\ Exists(jobs, id) => jobs'[id].params = jobs[id].params
          /\ ( /\ last'.op = "get_job"
               /\ last'.job = id
               /\ Exists(jobs', id)
               /\ last'.user = jobs'[id].user_id )
             => ( /\ "params" \in DOMAIN last'.resp.body
                  /\ last'.resp.body.params = jobs'[id].params ) ]_vars

\* =========================================================================
\* Claims on the requests: rate-limit headers, degradation, authentication
\* =========================================================================
RateLimitHeaderNames == {"X-RateLimit-Limit", "X-RateLimit-Remaining", "X-RateLimit-Reset"}

\* C15: a request of a valid credential on a rate-limited route, made while
\* the counter store is unavailable (no client, or a client whose pipeline
\* fails), is admitted by the rate limiter.
C15_FailOpen ==
    ( /\ http.n > 0
      /\ http.cred \in ApiKeys
      /\ http.ep \in RateLimitedEndpoints
      /\ http.redis \in {"none", "down"} )
    => http.deps = "ok"

\* C16: the response to every request of a valid credential, on every
\* endpoint and whatever its status (429 included), carries the three
\* rate-limit headers.
C16_HeadersOnEveryResponse ==
    (http.n > 0 /\ http.cred \in ApiKeys) => DOMAIN http.headers = RateLimitHeaderNames

\* C17: the execution of a check that rejects the request adds no entry to
\* the credential's window.
C17_RejectedNotRecorded ==
    [][ ( /\ Len(rlLog') = Len(rlLog) + 1
          /\ ~rlLog'[Len(rlLog')].allowed )
        => LET key == rlLog'[Len(rlLog')].key
           IN  zsets'[redis_key(key)] \subseteq Stored(zsets, expireAt, redis_key(key), rlClock) ]_vars

\* C18: the count a check compares with the capacity is the number of entries
\* in the window once the request's own entry has been recorded.
C18_RecordThenCheck ==
    [][ Len(rlLog') = Len(rlLog) + 1
        => LET out == rlLog'[Len(rlLog')]
           IN  out.current_count = zcard(zsets'[redis_key(out.key)]) ]_vars

\* C19: a request that carries no valid Bearer credential is answered 401 on
\* every endpoint, creates and changes no job, queues nothing and records no
\* rate-limit entry.
C19_Unauthenticated401 ==
    [][ (http'.n = http.n + 1 /\ http'.cred \notin ApiKeys)
        => /\ http'.status = 401
           /\ jobs' = jobs
           /\ queue' = queue
           /\ revoked' = revoked
           /\ zsets' = zsets
           /\ expireAt' = expireAt ]_vars

\* a 401 on a rate-limited route while Redis answers and the credential of
\* earlier requests has entries in its window
C19_Witness ==
    /\ http.n > 1
    /\ http.cred \notin ApiKeys
    /\ http.ep = "create_transcription"
    /\ http.redis = "up"
    /\ http.status = 401
    /\ \E key \in DOMAIN zsets : zsets[key] # {}

\* C20: a GET of a job or a transcription whose id is not well formed is
\* answered 401, 404 or 422, never 500, whoever the caller.
C20_MalformedIdNoInternalError ==
    (http.n > 0 /\ http.ep \in {"get_job", "get_transcription"} /\ ~http.wellformed)
    => http.status \in {401, 404, 422}

\* =========================================================================
\* Claims on job creation, the workers and the repository's frame
\* =========================================================================

\* C21: a creation request that reaches its handler is answered 202 when it
\* carries exactly one audio source (an upload or a URL); when it carries
\* neither or both it is answered 422 and the jobs table is left as it was.
C21_ExactlyOneAudioSource ==
    [][ ( /\ http'.n = http.n + 1
          /\ http'.ep \in CreateEndpoints
          /\ http'.deps = "ok" )
        => IF http'.src \in {"upload", "url"}
           THEN http'.status = 202
           ELSE http'.status = 422 /\ jobs' = jobs ]_vars

\* the number of lines of a text
LineCount(text) ==
    IF Len(text) = 0 THEN 0
    ELSE 1 + Cardinality({ i \in 1..Len(text) : text[i] = NewLine })

\* the result the last call of the diarization backend returned
DiarResult == last.resp.body.result

\* C22: a diarization run asked for two speakers returns a result whose
\* speakers list has exactly two entries with two distinct identifiers, and
\* whose RTTM text has as many lines as the result has segments.
C22_TwoSpeakersRttmPerSegment ==
    (last.op \in {"diarize", "diarize_bytes"} /\ last.resp.body.num_speakers = 2)
    => /\ Len(DiarResult.speakers) = 2
       /\ Cardinality({ DiarResult.speakers[k].id : k \in 1..Len(DiarResult.speakers) }) = 2
       /\ LineCount(DiarResult.rttm) = Len(DiarResult.segments)

\* a run on audio bytes asked for two speakers has returned its segments
C22_Witness ==
    /\ last.op = "diarize_bytes"
    /\ last.resp.body.num_speakers = 2
    /\ last.resp.body.audio_len > 0
    /\ Len(DiarResult.segments) = MockSegments

\* C23: when a cancel request is answered 204, the job it cancelled has
\* status cancelled and a completed_at that is set.
C23_CancelSetsCompletedAt ==
    [][ (last'.op = "cancel_job" /\ last'.resp.code = 204)
        => /\ jobs'[last'.job].status = "cancelled"
           /\ jobs'[last'.job].completed_at # NoTime ]_vars

\* C24: the dispatch transition is taken from pending only: no step moves a
\* job that is processing, completed, failed or cancelled to queued.
C24_DispatchOnlyFromPending ==
    [][ \A id \in JobIds :
            (Exists(jobs, id) /\ jobs[id].status \in {"processing"} \cup Terminal)
                => jobs'[id].status # "queued" ]_vars

\* C25: at most one worker is executing a given job at any time, whatever
\* the interleaving of deliveries, redeliveries and worker losses.
C25_ClaimExclusivity ==
    \A id \in JobIds : running[id] <= 1

\* a step in which a worker starts executing the job
WorkerStarts(id) == running'[id] > running[id]

\* a step in which the job's row is written by neither the creation endpoint
\* nor a cancel request
WorkerWrites(id) ==
    /\ jobs'[id] # jobs[id]
    /\ createPc'[id] = createPc[id]
    /\ cancelPc'[id] = cancelPc[id]

\* C26: once a cancel of a pending or queued job has been answered and the
\* job is cancelled, no worker starts executing the job and no worker writes
\* a result, a progress or a status for it.
C26_CancelledNeverExecuted ==
    [][ \A id \in JobIds :
            (Exists(jobs, id) /\ jobs[id].status = "cancelled" /\ cancelPc[id] = "idle")
                => ~WorkerStarts(id) /\ ~WorkerWrites(id) ]_vars

\* the jobs in a terminal state that have a webhook URL and whose webhook
\* has not been marked as sent
AwaitingWebhook(tbl) ==
    { id \in DOMAIN tbl :
        /\ Exists(tbl, id)
        /\ tbl[id].status \in Terminal
        /\ tbl[id].webhook_url # None
        /\ ~tbl[id].webhook_sent }

\* C27: a read of the pending webhooks returns, up to its limit, exactly
\* the jobs in a terminal state (completed, failed or cancelled) that have a
\* webhook URL and an unset webhook flag.
C27_PendingWebhooksAreTerminalUnsent ==
    [][ last'.op = "get_pending_webhooks"
        => /\ Range(last'.resp.ids) \subseteq AwaitingWebhook(jobs)
           /\ Len(last'.resp.ids) = Min2(PendingLimit, Cardinality(AwaitingWebhook(jobs))) ]_vars

\* C28: in every reachable state, a job whose started_at and completed_at
\* are both set has started_at <= completed_at.
C28_StartedBeforeCompleted ==
    \A id \in JobIds :
        (Exists(jobs, id) /\ jobs[id].started_at # NoTime /\ jobs[id].completed_at # NoTime)
            => jobs[id].started_at <= jobs[id].completed_at

\* C29: while a job is processing, no step lowers its stored progress
\* percentage.
C29_ProgressNeverDecreases ==
    [][ \A id \in JobIds :
            (Exists(jobs, id) /\ jobs[id].status = "processing" /\ jobs'[id].status = "processing")
                => jobs'[id].progress_percent >= jobs[id].progress_percent ]_vars

\* the columns a progress update is to leave alone: everything but the
\* progress percentage and message (and updated_at, the time of the row's
\* last write)
ProgressFrame(row) ==
    [ row EXCEPT !.progress_percent = 0, !.progress_message = None, !.updated_at = 0 ]

\* C30: a progress update of a job leaves the job's status, result, error,
\* created_at, started_at, completed_at, task id and webhook flag (and every
\* column other than the progress percentage and message) as they were, and
\* leaves the other jobs alone; a job that is processing stays processing.
C30_ProgressUpdateFrame ==
    [][ last'.op = "update_progress"
        => /\ ProgressFrame(jobs'[last'.job]) = ProgressFrame(jobs[last'.job])
           /\ \A id \in JobIds \ {last'.job} : jobs'[id] = jobs[id] ]_vars

\* a progress update has changed the percentage and the message of a job
\* that is processing
C30_Witness ==
    \E id \in JobIds :
        /\ last.op = "update_progress" /\ last.job = id
        /\ jobs[id].status = "processing"
        /\ jobs[id].started_at = 0
        /\ jobs[id].progress_percent = 50
        /\ jobs[id].progress_message = "decoding"
        /\ jobs[id].updated_at = 1

\* =========================================================================
\* Claims on dispatch, retries, credentials and status reporting
\* =========================================================================

\* C31: when the enqueueing of a job's task raises at creation time, the
\* caller is answered with the error and the job, from that answer on, is
\* failed with an error recorded: it does not stay pending.
C31_DispatchFailureFailsJob ==
    \A id \in JobIds :
        createPc[id] = "raised"
            => /\ jobs[id].status = "failed"
               /\ jobs[id].error_message # None

\* C32: when a creation request is answered 202 with status queued, the
\* stored job has a task id and a status that is queued or later, whatever
\* the audio source of the request.
C32_AcceptedMeansEnqueued ==
    [][ (last'.op = "create" /\ last'.resp.code = 202 /\ last'.resp.status = "queued")
        => /\ jobs'[last'.job].celery_task_id # NoTask
           /\ jobs'[last'.job].status # "pending" ]_vars
\* C33: a job's retry count never exceeds its maximum number of retries, and
\* the job's task is executed at most that maximum plus one times.
C33_RetriesBounded ==
    \A id \in JobIds :
        Exists(jobs, id)
            => /\ jobs[id].retries <= jobs[id].max_retries
               /\ attempts[id] <= jobs[id].max_retries + 1

\* C34: no job stays in processing beyond the wall-clock ceiling: a job that
\* has been processing for longer than the hard time limit has been failed
\* with the timeout error code.
C34_NoProcessingBeyondCeiling ==
    \A id \in JobIds :
        (Exists(jobs, id) /\ jobs[id].status = "processing")
            => clock <= jobs[id].started_at + TimeLimit

\* C35: no step removes the credential row a job's api_key_id points to, and
\* no step takes a job's api_key_id away.
C35_ReferencedKeyNeverDeleted ==
    [][ \A id \in JobIds :
            (Exists(jobs, id) /\ jobs[id].api_key_id # None)
                => /\ jobs'[id].api_key_id = jobs[id].api_key_id
                   /\ api_keys[jobs[id].api_key_id].present
                        => api_keys'[jobs[id].api_key_id].present ]_vars

\* C36: every request check_rate_limit processes adds one entry of its own to
\* its credential's window, so that after it the window holds as many
\* entries as requests of the credential were processed in the 60 seconds up
\* to it.
C36_OneEntryPerRequest ==
    [][ Len(rlLog') = Len(rlLog) + 1
        => LET out == rlLog'[Len(rlLog')]
               recorded == { m \in 1..Len(rlLog') :
                                /\ rlLog'[m].key = out.key
                                /\ rlLog'[m].now > out.now - WindowSeconds }
           IN  /\ zcard(zsets'[redis_key(out.key)]) = out.current_count + 1
               /\ zcard(zsets'[redis_key(out.key)]) = Cardinality(recorded) ]_vars

\* what check_rate_limit answers to these requests of one credential, and the
\* window it leaves, when no other credential makes any request
RECURSIVE Alone(_, _, _, _)
Alone(key, nows, zset, outs) ==
    IF nows = <<>> THEN [log |-> outs, window |-> zset]
    ELSE LET now == Head(nows)
             z1 == zremrangebyscore(zset, 0, now - WindowSeconds)
             out == Outcome(key, RateLimitOf(key), now, zcard(z1))
         IN  Alone(key, Tail(nows), zadd(z1, Member(now), now), Append(outs, out))

\* the times of the requests of a log, in order
NowsOf(sq) == [ i \in 1..Len(sq) |-> sq[i].now ]

\* C37: a credential's requests are answered (admitted or rejected, limit,
\* remaining) exactly as if no other credential had made any request, and the
\* credential's window record is the one its own requests alone leave.
C37_RateLimitIsolation ==
    \A key \in ApiKeys :
        LET sq == OfKey(rlLog, key)
            alone == Alone(key, NowsOf(sq), {}, <<>>)
        IN  /\ sq = alone.log
            /\ sq # <<>> => zsets[redis_key(key)] = alone.window

\* a credential is answered with a fresh window after the other credential
\* has been rejected
C37_Witness ==
    \E i, j \in 1..Len(rlLog) :
        /\ i < j
        /\ rlLog[i].key # rlLog[j].key
        /\ ~rlLog[i].allowed
        /\ rlLog[j].now - rlLog[i].now < WindowSeconds
        /\ rlLog[j].allowed
        /\ rlLog[j].current_count = 0

\* C38: under fair scheduling, every job a creation endpoint has created,
\* from an upload or from a URL, eventually reaches a terminal status.
C38_EveryJobTerminates ==
    \A id \in JobIds :
        Exists(jobs, id) ~> (jobs[id].status \in {"completed", "failed", "cancelled"})

\* C39: the owner's GET /v1/jobs/{id} and GET /v1/diarization/{id} of a job in
\* a terminal status report a terminal status, never queued, pending or
\* processing.
C39_TerminalReportedTerminal ==
    [][ ( /\ last'.op \in {"get_job", "get_diarization"}
          /\ last'.resp.code = 200
          /\ Exists(jobs, last'.job)
          /\ jobs[last'.job].status \in Terminal )
        => last'.resp.status \in Terminal ]_vars

\* C40: once the job of a transcription is in a terminal status, the owner's
\* GET /v1/transcriptions/{id} does not report the transcription as
\* processing.
C40_TranscriptionFollowsJob ==
    [][ ( /\ last'.op = "get_transcription"
          /\ last'.resp.code = 200
          /\ Exists(jobs, transcriptions[last'.job].job_id)
          /\ jobs[transcriptions[last'.job].job_id].status \in Terminal )
        => last'.resp.status # "processing" ]_vars

====
